---- MODULE Spec2Model ----
(***************************************************************************)
(* Model of the core tool functions of src/app.py: check_conflicts,        *)
(* handle_urgent_reassignment and update_pilot_status, acting on the three *)
(* tables held in st.session_state (pilots, drones, missions).             *)
(*                                                                         *)
(* Text that the code transforms (split, strip, lower, substring test,     *)
(* strptime) is a sequence of one-character strings.  Text that the code   *)
(* only compares for equality (identifiers, status, location, name, model) *)
(* is a plain string.                                                      *)
(***************************************************************************)
EXTENDS Integers, Sequences, FiniteSets, TLC

VARIABLES pilots, drones, missions, call, result, events

vars == <<pilots, drones, missions, call, result, events>>

----------------------------------------------------------------------------
(* Python str methods used by the code.                                    *)

UpperChars == <<"A","B","C","D","E","F","G","H","I","J","K","L","M",
                "N","O","P","Q","R","S","T","U","V","W","X","Y","Z">>

LowerChars == <<"a","b","c","d","e","f","g","h","i","j","k","l","m",
                "n","o","p","q","r","s","t","u","v","w","x","y","z">>

Whitespace == {" ", "\t", "\n", "\r"}

UpperToLower ==
    [c \in {UpperChars[i] : i \in 1..26} |->
        LowerChars[CHOOSE i \in 1..26 : UpperChars[i] = c]]

LowerChar(c) == IF c \in DOMAIN UpperToLower THEN UpperToLower[c] ELSE c

\* str.lower()
RECURSIVE Lower(_)
Lower(s) ==
    IF Len(s) = 0 THEN <<>>
    ELSE <<LowerChar(Head(s))>> \o Lower(Tail(s))

\* sub in s
Contains(sub, s) ==
    \E i \in 1..(Len(s) - Len(sub) + 1) : SubSeq(s, i, i + Len(sub) - 1) = sub

\* str.strip()
Strip(s) ==
    LET keep == {i \in 1..Len(s) : s[i] \notin Whitespace}
    IN  IF keep = {} THEN <<>>
        ELSE LET lo == CHOOSE i \in keep : \A j \in keep : i <= j
                 hi == CHOOSE i \in keep : \A j \in keep : j <= i
             IN  SubSeq(s, lo, hi)

\* str.split(sep) for a one-character separator: the list of the segments
\* between the separators, empty segments included.
RECURSIVE Split(_, _)
Split(s, sep) ==
    LET cuts == {i \in 1..Len(s) : s[i] = sep}
    IN  IF cuts = {}
        THEN <<s>>
        ELSE LET k == CHOOSE i \in cuts : \A j \in cuts : i <= j
             IN  <<SubSeq(s, 1, k - 1)>>
                     \o Split(SubSeq(s, k + 1, Len(s)), sep)

\* [t.strip() for t in parts]
RECURSIVE StripEach(_)
StripEach(parts) ==
    IF Len(parts) = 0 THEN <<>>
    ELSE <<Strip(Head(parts))>> \o StripEach(Tail(parts))

\* [t.strip() for t in text.split(',')]
Tokens(text) == StripEach(Split(text, ","))

\* x in lst
InList(x, lst) == \E i \in 1..Len(lst) : lst[i] = x

\* all(t in have for t in need)
AllIn(need, have) == \A i \in 1..Len(need) : InList(need[i], have)

\* An empty cell of a CSV column, as pandas loads it.
NaN == <<"NaN">>

\* str(x) of a cell: the text itself, or 'nan' for an empty cell.
Str(x) == IF x = NaN THEN <<"n","a","n">> ELSE x

----------------------------------------------------------------------------
(* datetime.datetime.strptime(text, '%Y-%m-%d') and date arithmetic.       *)

DigitChars == <<"0","1","2","3","4","5","6","7","8","9">>

DigitValue == [c \in {DigitChars[i] : i \in 1..10} |->
                   (CHOOSE i \in 1..10 : DigitChars[i] = c) - 1]

IsDigit(c) == c \in DOMAIN DigitValue

DigitVal(c) == DigitValue[c]

RECURSIVE ParseInt(_)
ParseInt(s) ==
    IF Len(s) = 0 THEN 0
    ELSE 10 * ParseInt(SubSeq(s, 1, Len(s) - 1)) + DigitVal(s[Len(s)])

AllDigits(s) == Len(s) > 0 /\ \A i \in 1..Len(s) : IsDigit(s[i])

IsLeap(y) == (y % 4 = 0) /\ ((y % 100 # 0) \/ (y % 400 = 0))

DaysInMonth(y, m) ==
    IF m = 2 THEN (IF IsLeap(y) THEN 29 ELSE 28)
    ELSE IF m \in {4, 6, 9, 11} THEN 30 ELSE 31

\* Whether the fields are those of a date strptime accepts: a four-digit
\* year, a month and a day of one or two digits, naming a day of the calendar.
IsDate(parts) ==
    /\ Len(parts) = 3
    /\ AllDigits(parts[1]) /\ Len(parts[1]) = 4
    /\ AllDigits(parts[2]) /\ Len(parts[2]) \in {1, 2}
    /\ AllDigits(parts[3]) /\ Len(parts[3]) \in {1, 2}
    /\ LET y == ParseInt(parts[1])
           m == ParseInt(parts[2])
           d == ParseInt(parts[3])
       IN  y >= 1 /\ m \in 1..12 /\ d \in 1..DaysInMonth(y, m)

ValueError == [exc |-> "ValueError"]

\* strptime(text, '%Y-%m-%d'): the datetime (at midnight) the text names, or
\* ValueError when the text does not match the format.
strptime(text) ==
    LET parts == Split(text, "-")
    IN  IF IsDate(parts)
        THEN [year  |-> ParseInt(parts[1]),
              month |-> ParseInt(parts[2]),
              day   |-> ParseInt(parts[3])]
        ELSE ValueError

RECURSIVE DaysBeforeMonth(_, _)
DaysBeforeMonth(y, m) ==
    IF m = 1 THEN 0 ELSE DaysBeforeMonth(y, m - 1) + DaysInMonth(y, m - 1)

\* date.toordinal(): the day number in the proleptic Gregorian calendar.
ToOrdinal(d) ==
    LET y == d.year - 1
    IN  y * 365 + (y \div 4) - (y \div 100) + (y \div 400)
          + DaysBeforeMonth(d.year, d.month) + d.day

\* (b - a).days for two datetimes at midnight.
DaysBetween(a, b) == ToOrdinal(b) - ToOrdinal(a)

\* a <= b for two datetimes at midnight.
NotAfter(a, b) == ToOrdinal(a) <= ToOrdinal(b)

----------------------------------------------------------------------------
(* Literals of the code.                                                   *)

Txt_rainy == <<"r","a","i","n","y">>
Txt_rain == <<"r","a","i","n">>
Txt_urgent == <<"u","r","g","e","n","t">>
Txt_Standard == <<"S","t","a","n","d","a","r","d">>

(* Cell texts of the loaded tables.                                        *)

Txt_Urgent == <<"U","r","g","e","n","t">>
Txt_URGENT == <<"U","R","G","E","N","T">>
Txt_High == <<"H","i","g","h">>
Txt_Rainy == <<"R","a","i","n","y">>
Txt_Sunny == <<"S","u","n","n","y">>
Txt_IP54 == <<"I","P","5","4",","," ","n","o"," ","r","a","i","n"," ","r","a","t","i","n","g">>
Txt_AllWeather == <<"A","l","l","-","w","e","a","t","h","e","r",","," ","r","a","i","n","-","r","a","t","e","d">>
Txt_ClearSky == <<"N","o","n","e"," ","(","C","l","e","a","r"," ","S","k","y"," ","O","n","l","y",")">>
Txt_IP43 == <<"I","P","4","3"," ","(","R","a","i","n",")">>
Txt_Survey == <<"S","u","r","v","e","y">>
Txt_SurveyThermal == <<"S","u","r","v","e","y",",","T","h","e","r","m","a","l">>
Txt_SurveyMapping == <<"S","u","r","v","e","y",",","M","a","p","p","i","n","g">>
Txt_ThermalSurveySp == <<"T","h","e","r","m","a","l",","," ","S","u","r","v","e","y">>
Txt_SurveyThermalPad == <<" ","S","u","r","v","e","y"," ",","," ","T","h","e","r","m","a","l"," ">>
Txt_surveyThermalLc == <<"s","u","r","v","e","y",",","T","h","e","r","m","a","l">>
Txt_MappingSurveyThermal == <<"M","a","p","p","i","n","g",",","S","u","r","v","e","y",",","T","h","e","r","m","a","l">>
Txt_Mapping == <<"M","a","p","p","i","n","g">>
Txt_Thermal == <<"T","h","e","r","m","a","l">>
Txt_SurveyPad == <<" ","S","u","r","v","e","y">>
Txt_MappingSurveySp == <<"M","a","p","p","i","n","g"," ",","," ","S","u","r","v","e","y">>
Txt_ThermalSurvey == <<"T","h","e","r","m","a","l",",","S","u","r","v","e","y">>
Txt_SurveyTrailing == <<"S","u","r","v","e","y",",">>
Txt_DGCA == <<"D","G","C","A">>
Txt_DGCANight == <<"D","G","C","A",",","N","i","g","h","t"," ","O","p","s">>
Txt_Night == <<"N","i","g","h","t"," ","O","p","s">>

\* The current_assignment cell of a pilot who has no assignment.
NoAssignment == "-"

----------------------------------------------------------------------------
(* Row selection: df[df[col] == id], in table order.                       *)

PilotRows(pilot_id) == SelectSeq(pilots, LAMBDA r : r.pilot_id = pilot_id)

DroneRows(drone_id) == SelectSeq(drones, LAMBDA r : r.drone_id = drone_id)

MissionRows(project_id) ==
    SelectSeq(missions, LAMBDA r : r.project_id = project_id)

----------------------------------------------------------------------------
(* The rules of check_conflicts.                                           *)

\* Variant: only a pilot on leave counts as unavailable.
AvailabilityConflict_OnLeaveOnly(pilot) == pilot.status = "On Leave"

\* 1. pilot['status'] != 'Available'
AvailabilityConflict(pilot) == pilot.status # "Available"

\* Variant: the fields are compared without strip().
SkillMismatch_Untrimmed(pilot, mission) ==
    ~AllIn(Split(mission.required_skills, ","), Split(pilot.skills, ","))

\* 2. not all(s in pilot_skills for s in mission_skills)
SkillMismatch(pilot, mission) ==
    ~AllIn(Tokens(mission.required_skills), Tokens(pilot.skills))

\*    not all(c in pilot_certs for c in mission_certs), over str() of the cells
CertMismatch(pilot, mission) ==
    ~AllIn(Tokens(Str(mission.required_certs)),
           Tokens(Str(pilot.certifications)))

\* 3. pilot['location'] != mission['location']
LocationMismatch(pilot, mission) == pilot.location # mission.location

\* 4. days = (end - start).days + 1
MissionDays(start, end) == DaysBetween(start, end) + 1

\*    total_cost = days * pilot['daily_rate_inr']
TotalCost(days, daily_rate_inr) == days * daily_rate_inr

\* Variant: a total equal to the budget counts as an overrun.
BudgetOverrun_Inclusive(total_cost, mission_budget_inr) ==
    total_cost >= mission_budget_inr

\*    total_cost > mission['mission_budget_inr']
BudgetOverrun(total_cost, mission_budget_inr) ==
    total_cost > mission_budget_inr

\* 5. forecast.lower() == 'rainy' and 'rain' not in str(resistance).lower()
WeatherRisk(drone, mission) ==
    /\ Lower(mission.weather_forecast) = Txt_rainy
    /\ ~Contains(Txt_rain, Lower(Str(drone.weather_resistance)))

\* Variant: maintenance due on the start date itself is let through.
MaintenanceDue_Strict(maint_date, start) == ~NotAfter(start, maint_date)

\* 6. maint_date <= start
MaintenanceDue(maint_date, start) == NotAfter(maint_date, start)

Raise(exc) == [kind |-> "raise", exc |-> exc]

Return(value) == [kind |-> "return", value |-> value]

\* The body of check_conflicts once the three rows are resolved: the
\* messages in the order the code appends them.  A ValueError of strptime
\* ends the call, whatever was appended before.
Conflicts(pilot, drone, mission) ==
    LET start      == strptime(mission.start_date)
        end        == strptime(mission.end_date)
        days       == MissionDays(start, end)
        total_cost == TotalCost(days, pilot.daily_rate_inr)
        maint_date == strptime(drone.maintenance_due)
    IN  IF ValueError \in {start, end, maint_date}
        THEN Raise("ValueError")
        ELSE Return(
            (IF AvailabilityConflict(pilot)
             THEN <<[rule |-> "availability", name |-> pilot.name,
                     status |-> pilot.status]>>
             ELSE <<>>)
            \o (IF SkillMismatch(pilot, mission)
                THEN <<[rule |-> "skill",
                        required |-> mission.required_skills]>>
                ELSE <<>>)
            \o (IF CertMismatch(pilot, mission)
                THEN <<[rule |-> "cert",
                        required |-> mission.required_certs]>>
                ELSE <<>>)
            \o (IF LocationMismatch(pilot, mission)
                THEN <<[rule |-> "location",
                        pilot_location |-> pilot.location,
                        mission_location |-> mission.location]>>
                ELSE <<>>)
            \o (IF BudgetOverrun(total_cost, mission.mission_budget_inr)
                THEN <<[rule |-> "budget", total_cost |-> total_cost,
                        budget |-> mission.mission_budget_inr]>>
                ELSE <<>>)
            \o (IF WeatherRisk(drone, mission)
                THEN <<[rule |-> "weather", model |-> drone.model]>>
                ELSE <<>>)
            \o (IF MaintenanceDue(maint_date, start)
                THEN <<[rule |-> "maintenance", model |-> drone.model]>>
                ELSE <<>>))

\* What a call of check_conflicts ends in: .iloc[0] of an empty selection
\* raises IndexError, and nothing in the function or at its call site
\* catches it.
check_conflicts(pilot_id, drone_id, project_id) ==
    LET pilot_rows   == PilotRows(pilot_id)
        drone_rows   == DroneRows(drone_id)
        mission_rows == MissionRows(project_id)
    IN  IF Len(pilot_rows) = 0 \/ Len(drone_rows) = 0 \/ Len(mission_rows) = 0
        THEN Raise("IndexError")
        ELSE Conflicts(pilot_rows[1], drone_rows[1], mission_rows[1])

----------------------------------------------------------------------------
(* handle_urgent_reassignment.                                             *)

\* Variant: only a mission of priority 'standard' is turned away.
NotUrgent_StandardOnly(mission) ==
    Lower(mission.priority) = Lower(Txt_Standard)

\* mission['priority'].lower() != 'urgent'
NotUrgent(mission) == Lower(mission.priority) # Txt_urgent

\* standard_missions['project_id'].tolist()
StandardProjectIds ==
    {missions[i].project_id :
        i \in {j \in 1..Len(missions) : missions[j].priority = Txt_Standard}}

\* Variant: every Assigned pilot is a candidate, whatever the mission.
Preemptable_AnyAssigned(pilot) == pilot.status = "Assigned"

\* The row filter of preemptable_pilots.
Preemptable(pilot) ==
    /\ pilot.status = "Assigned"
    /\ pilot.current_assignment \in StandardProjectIds

PreemptablePilots == SelectSeq(pilots, Preemptable)

\* preemptable_pilots.iloc[0]
SuggestedPilot(candidates) == candidates[1]

handle_urgent_reassignment(project_id) ==
    IF Len(MissionRows(project_id)) = 0
    THEN Raise("IndexError")
    ELSE LET mission == MissionRows(project_id)[1]
         IN  IF NotUrgent(mission)
             THEN Return([status |-> "Failed",
                          reason |-> "Mission is not Urgent."])
             ELSE IF Len(PreemptablePilots) = 0
             THEN Return([status |-> "Failed",
                          reason |-> "No preemptable standard assignments found."])
             ELSE LET suggested_pilot == SuggestedPilot(PreemptablePilots)
                  IN  Return([status |-> "Success",
                              action_recommended |->
                                  [preempt |-> suggested_pilot.name,
                                   from |-> suggested_pilot.current_assignment,
                                   to |-> project_id]])

----------------------------------------------------------------------------
(* update_pilot_status.                                                    *)

\* st.session_state.pilots.index[pilots['pilot_id'] == pilot_id].tolist()
PilotIndex(pilot_id) ==
    {i \in 1..Len(pilots) : pilots[i].pilot_id = pilot_id}

\* idx[0]
FirstIndex(idx) == CHOOSE i \in idx : \A j \in idx : i <= j

\* Variant: the assignment is made on the whole column.
SetStatus_AllRows(table, row, new_status) ==
    [i \in 1..Len(table) |-> [table[i] EXCEPT !.status = new_status]]

\* pilots.at[row, 'status'] = new_status
SetStatus(table, row, new_status) ==
    [table EXCEPT ![row].status = new_status]

\* sync_to_google_sheets(df, sheet_name), as the call the function makes.
SyncCall(df, sheet_name) ==
    [fn |-> "sync_to_google_sheets", df |-> df, sheet_name |-> sheet_name]

----------------------------------------------------------------------------
(* The tables as load_data() leaves them in st.session_state.              *)

\* Bounds of the loaded values: the mission lasts up to MaxSpan + 1 days, the
\* daily rate is up to MaxRateUnits thousand, the budget up to MaxBudgetUnits
\* thousand, and maintenance falls due up to MaxMaintLag days after the start.
MaxSpan == 2
MaxRateUnits == 2
MaxBudgetUnits == 4
MaxMaintLag == 1

\* The text of a date in the files, 'YYYY-MM-DD'.
FormatDate(d) ==
    <<DigitChars[((d.year \div 1000) % 10) + 1],
      DigitChars[((d.year \div 100) % 10) + 1],
      DigitChars[((d.year \div 10) % 10) + 1],
      DigitChars[(d.year % 10) + 1], "-",
      DigitChars[(d.month \div 10) + 1], DigitChars[(d.month % 10) + 1], "-",
      DigitChars[(d.day \div 10) + 1], DigitChars[(d.day % 10) + 1]>>

Date(y, m, d) == [year |-> y, month |-> m, day |-> d]

\* The date n days after d.
AddDays(d, n) ==
    CHOOSE e \in [year : (d.year - 1)..(d.year + 1), month : 1..12, day : 1..31] :
        /\ e.day <= DaysInMonth(e.year, e.month)
        /\ ToOrdinal(e) = ToOrdinal(d) + n

PilotIds == {"P001", "P002"}
DroneIds == {"D001", "D002"}
ProjectIds == {"PRJ001", "PRJ002", "PRJ003"}

BasePilots ==
    <<[pilot_id |-> "P001", name |-> "Arjun", skills |-> Txt_SurveyThermal,
       certifications |-> Txt_DGCANight, location |-> "Bangalore",
       status |-> "Available", current_assignment |-> NoAssignment,
       daily_rate_inr |-> 1500],
      [pilot_id |-> "P002", name |-> "Neha", skills |-> Txt_Mapping,
       certifications |-> Txt_DGCA, location |-> "Mumbai",
       status |-> "Assigned", current_assignment |-> "PRJ001",
       daily_rate_inr |-> 3000]>>

BaseDrones ==
    <<[drone_id |-> "D001", model |-> "DJI M300",
       weather_resistance |-> Txt_AllWeather,
       maintenance_due |-> FormatDate(Date(2026, 3, 10))],
      [drone_id |-> "D002", model |-> "DJI Mavic 3",
       weather_resistance |-> Txt_IP54,
       maintenance_due |-> FormatDate(Date(2026, 2, 1))]>>

BaseMissions ==
    <<[project_id |-> "PRJ001", required_skills |-> Txt_Survey,
       required_certs |-> Txt_DGCA, location |-> "Bangalore",
       start_date |-> FormatDate(Date(2026, 3, 1)),
       end_date |-> FormatDate(Date(2026, 3, 3)),
       mission_budget_inr |-> 4500, weather_forecast |-> Txt_Rainy,
       priority |-> Txt_Standard],
      [project_id |-> "PRJ002", required_skills |-> Txt_SurveyMapping,
       required_certs |-> NaN, location |-> "Mumbai",
       start_date |-> FormatDate(Date(2026, 2, 27)),
       end_date |-> FormatDate(Date(2026, 3, 1)),
       mission_budget_inr |-> 5000, weather_forecast |-> Txt_Sunny,
       priority |-> Txt_Urgent],
      [project_id |-> "PRJ003", required_skills |-> Txt_Thermal,
       required_certs |-> Txt_Night, location |-> "Bangalore",
       start_date |-> FormatDate(Date(2025, 12, 31)),
       end_date |-> FormatDate(Date(2026, 1, 1)),
       mission_budget_inr |-> 2000, weather_forecast |-> Txt_rainy,
       priority |-> Txt_URGENT]>>

\* Rosters: who is assigned to what, and the priorities of the missions.
InitRoster ==
    \E a1 \in {NoAssignment, "PRJ001", "PRJ002"},
       a2 \in {"PRJ001", "PRJ002", "PRJ003"},
       p1 \in {Txt_Standard, Txt_High}, p3 \in {Txt_Standard, Txt_URGENT} :
        /\ pilots = [BasePilots EXCEPT ![1].current_assignment = a1,
                                       ![1].status = "Assigned",
                                       ![2].current_assignment = a2]
        /\ drones = BaseDrones
        /\ missions = [BaseMissions EXCEPT ![1].priority = p1,
                                           ![3].priority = p3]

PilotSkillTexts ==
    {Txt_SurveyThermal, Txt_ThermalSurveySp, Txt_SurveyThermalPad,
     Txt_Survey, Txt_surveyThermalLc, Txt_MappingSurveyThermal}

RequiredSkillTexts ==
    {Txt_Survey, Txt_SurveyMapping, Txt_MappingSurveySp, Txt_SurveyPad,
     Txt_ThermalSurvey, Txt_SurveyTrailing}

\* Encodings of the skill sets.
InitSkills ==
    \E have \in PilotSkillTexts, need \in RequiredSkillTexts :
        /\ pilots = [BasePilots EXCEPT ![1].skills = have]
        /\ drones = BaseDrones
        /\ missions = [BaseMissions EXCEPT ![1].required_skills = need]

\* Mission dates, daily rates and budgets.
InitBudget ==
    \E span \in 0..MaxSpan, rate \in 1..MaxRateUnits,
       budget \in 1..MaxBudgetUnits :
        /\ pilots = [BasePilots EXCEPT ![1].daily_rate_inr = 1000 * rate]
        /\ drones = BaseDrones
        /\ missions =
               [BaseMissions EXCEPT
                    ![1].start_date = FormatDate(Date(2024, 2, 28)),
                    ![1].end_date =
                        FormatDate(AddDays(Date(2024, 2, 28), span)),
                    ![1].mission_budget_inr = 1000 * budget]

\* Forecasts, weather ratings and maintenance dates.
InitDrone ==
    \E forecast \in {Txt_Rainy, Txt_Sunny},
       rating \in {Txt_IP54, Txt_AllWeather, Txt_ClearSky, Txt_IP43},
       lag \in (-1)..MaxMaintLag :
        /\ pilots = BasePilots
        /\ drones =
               [BaseDrones EXCEPT
                    ![1].weather_resistance = rating,
                    ![1].maintenance_due =
                        FormatDate(AddDays(Date(2026, 3, 1), lag))]
        /\ missions = [BaseMissions EXCEPT ![1].weather_forecast = forecast]

NoCall == [op |-> "none"]

Idle ==
    /\ call = NoCall
    /\ result = Return(<<>>)
    /\ events = <<>>

Init == InitRoster /\ Idle

InitS == InitSkills /\ Idle

InitB == InitBudget /\ Idle

InitD == InitDrone /\ Idle

----------------------------------------------------------------------------
(* The tool calls.  The arguments come from the language model, so any     *)
(* identifier may be one that names no row.                                *)

PilotIdArgs == PilotIds \cup {"P999"}
DroneIdArgs == DroneIds \cup {"D999"}
ProjectIdArgs == ProjectIds \cup {"PRJ999"}
StatusArgs == {"Available", "Assigned", "On Leave"}

CheckConflicts(pilot_id, drone_id, project_id) ==
    /\ call' = [op |-> "check_conflicts", pilot_id |-> pilot_id,
                drone_id |-> drone_id, project_id |-> project_id]
    /\ result' = check_conflicts(pilot_id, drone_id, project_id)
    /\ events' = <<>>
    /\ UNCHANGED <<pilots, drones, missions>>

\* Variant: a recommended preemption is also carried out on the roster.
HandleUrgentReassignment_Applies(project_id) ==
    /\ call' = [op |-> "handle_urgent_reassignment", project_id |-> project_id]
    /\ result' = handle_urgent_reassignment(project_id)
    /\ events' = <<>>
    /\ pilots' =
           IF /\ result'.kind = "return"
              /\ result'.value.status = "Success"
           THEN LET row == CHOOSE i \in 1..Len(pilots) : Preemptable(pilots[i])
                IN  [pilots EXCEPT ![row].current_assignment = project_id]
           ELSE pilots
    /\ UNCHANGED <<drones, missions>>

HandleUrgentReassignment(project_id) ==
    /\ call' = [op |-> "handle_urgent_reassignment", project_id |-> project_id]
    /\ result' = handle_urgent_reassignment(project_id)
    /\ events' = <<>>
    /\ UNCHANGED <<pilots, drones, missions>>

UpdatePilotStatus(pilot_id, new_status) ==
    /\ call' = [op |-> "update_pilot_status", pilot_id |-> pilot_id,
                new_status |-> new_status]
    /\ IF PilotIndex(pilot_id) # {}
       THEN /\ pilots' = SetStatus(pilots, FirstIndex(PilotIndex(pilot_id)),
                                   new_status)
            /\ events' = <<SyncCall(pilots', "Pilot_Roster")>>
            /\ result' = Return([status |-> "Success",
                                 message |-> [updated |-> pilot_id,
                                              to |-> new_status]])
       ELSE /\ pilots' = pilots
            /\ events' = <<>>
            /\ result' = Return([status |-> "Error",
                                 message |-> "Pilot not found."])
    /\ UNCHANGED <<drones, missions>>

Next ==
    \/ \E pilot_id \in PilotIdArgs, drone_id \in DroneIdArgs,
          project_id \in ProjectIdArgs :
           CheckConflicts(pilot_id, drone_id, project_id)
    \/ \E project_id \in ProjectIdArgs : HandleUrgentReassignment(project_id)
    \/ \E pilot_id \in PilotIdArgs, new_status \in StatusArgs :
           UpdatePilotStatus(pilot_id, new_status)

Spec == Init /\ [][Next]_vars

SpecSkills == InitS /\ [][Next]_vars

SpecBudget == InitB /\ [][Next]_vars

SpecDrone == InitD /\ [][Next]_vars

----------------------------------------------------------------------------
(* Properties.                                                             *)

IsCheck == call.op = "check_conflicts"

IsReassign == call.op = "handle_urgent_reassignment"

IsUpdate == call.op = "update_pilot_status"

Returned == result.kind = "return"

HasMessage(rule) ==
    \E i \in 1..Len(result.value) : result.value[i].rule = rule

KnownPilot(pilot_id) == \E i \in 1..Len(pilots) : pilots[i].pilot_id = pilot_id

KnownDrone(drone_id) == \E i \in 1..Len(drones) : drones[i].drone_id = drone_id

KnownMission(project_id) ==
    \E i \in 1..Len(missions) : missions[i].project_id = project_id

\* The rows a call names (identifiers are unique in each table).
PilotOf(pilot_id) ==
    pilots[CHOOSE i \in 1..Len(pilots) : pilots[i].pilot_id = pilot_id]

DroneOf(drone_id) ==
    drones[CHOOSE i \in 1..Len(drones) : drones[i].drone_id = drone_id]

MissionOf(project_id) ==
    missions[CHOOSE i \in 1..Len(missions) : missions[i].project_id = project_id]

CheckResolves ==
    /\ IsCheck
    /\ KnownPilot(call.pilot_id)
    /\ KnownDrone(call.drone_id)
    /\ KnownMission(call.project_id)

\* C1: a call whose identifier names no row ends in a reported result, never
\* in an uncaught error: check_conflicts returns a list of one message, and
\* handle_urgent_reassignment returns a Failed outcome.
C1_LookupFailureIsReported ==
    /\ (IsCheck /\ ~CheckResolves)
           => (Returned /\ Len(result.value) = 1)
    /\ (IsReassign /\ ~KnownMission(call.project_id))
           => (Returned /\ result.value.status = "Failed")

\* C2: for a mission whose forecast is "Rainy", check_conflicts reports the
\* weather conflict for a drone rated "IP54, no rain rating" and reports none
\* for a drone rated "All-weather, rain-rated".
C2_RainyScenario ==
    (CheckResolves /\ Returned
        /\ MissionOf(call.project_id).weather_forecast = Txt_Rainy)
    => /\ (DroneOf(call.drone_id).weather_resistance = Txt_IP54
               => HasMessage("weather"))
       /\ (DroneOf(call.drone_id).weather_resistance = Txt_AllWeather
               => ~HasMessage("weather"))

\* A returning check reports the availability conflict exactly when the
\* status the roster holds for its pilot is not 'Available'.
C3_CheckStep ==
    (/\ call'.op = "check_conflicts"
     /\ result'.kind = "return")
    => ((\E i \in 1..Len(result'.value) :
             result'.value[i].rule = "availability")
            <=> \E i \in 1..Len(pilots') :
                    /\ pilots'[i].pilot_id = call'.pilot_id
                    /\ pilots'[i].status # "Available")

\* A returning check that directly follows update_pilot_status(p, s) for the
\* same pilot reports it exactly when s is not 'Available'.
C3_CheckAfterUpdate ==
    (/\ IsUpdate /\ KnownPilot(call.pilot_id)
     /\ call'.op = "check_conflicts"
     /\ call'.pilot_id = call.pilot_id
     /\ result'.kind = "return")
    => ((\E i \in 1..Len(result'.value) :
             result'.value[i].rule = "availability")
            <=> call.new_status # "Available")

\* C3: check_conflicts for a pilot reports the availability conflict exactly
\* when the pilot's current status (the value last written by
\* update_pilot_status, or the loaded one) is not 'Available'; so a check that
\* follows update_pilot_status(p, 'On Leave') always reports it.
C3_AvailabilityFollowsStatus ==
    [][C3_CheckStep /\ C3_CheckAfterUpdate]_vars

\* A check of a pilot whom update_pilot_status put on leave (the loaded
\* rosters hold no pilot on leave).
C3_Witness ==
    /\ CheckResolves /\ Returned
    /\ PilotOf(call.pilot_id).status = "On Leave"
    /\ HasMessage("availability")

\* C4: a call of check_conflicts or of handle_urgent_reassignment leaves the
\* three tables as they were, whatever it returns.
C4_ReadOnly ==
    [][call'.op \in {"check_conflicts", "handle_urgent_reassignment"}
           => (pilots' = pilots /\ drones' = drones /\ missions' = missions)]_vars

C4_Witness ==
    IsReassign /\ Returned /\ result.value.status = "Success"

\* C5: for an urgent mission the candidates are exactly the pilots with
\* status 'Assigned' whose current assignment is the identifier of a mission
\* of priority 'Standard'; with no candidate the outcome is Failed, otherwise
\* it is Success and names the first candidate in table order, who is
\* Assigned and is not on an urgent mission.
CandidateRows ==
    {i \in 1..Len(pilots) :
        /\ pilots[i].status = "Assigned"
        /\ \E m \in 1..Len(missions) :
               /\ missions[m].project_id = pilots[i].current_assignment
               /\ missions[m].priority = Txt_Standard}

FirstCandidate == CHOOSE i \in CandidateRows : \A j \in CandidateRows : i <= j

UrgentCall ==
    /\ IsReassign
    /\ KnownMission(call.project_id)
    /\ Lower(MissionOf(call.project_id).priority) = Txt_urgent

C5_FirstStandardAssignee ==
    UrgentCall =>
        /\ Returned
        /\ IF CandidateRows = {}
           THEN /\ result.value.status = "Failed"
                /\ result.value.reason
                       = "No preemptable standard assignments found."
           ELSE /\ result.value.status = "Success"
                /\ result.value.action_recommended
                       = [preempt |-> pilots[FirstCandidate].name,
                          from |-> pilots[FirstCandidate].current_assignment,
                          to |-> call.project_id]
                /\ \A i \in 1..Len(pilots) :
                       pilots[i].name = result.value.action_recommended.preempt
                       => /\ pilots[i].status = "Assigned"
                          /\ \A m \in 1..Len(missions) :
                                 missions[m].project_id
                                     = pilots[i].current_assignment
                                 => Lower(missions[m].priority) # Txt_urgent

\* Both pilots are candidates, and an urgent mission has an assignee too.
C5_Witness ==
    /\ UrgentCall /\ Returned
    /\ result.value.status = "Success"
    /\ Cardinality(CandidateRows) = 2

\* C6: for a mission whose priority is not 'urgent' in any letter case, the
\* outcome is Failed with the not-urgent reason, whoever is assigned.
SameLetter(a, b) ==
    \/ a = b
    \/ \E i \in 1..26 : {a, b} = {UpperChars[i], LowerChars[i]}

SameIgnoringCase(s, t) ==
    /\ Len(s) = Len(t)
    /\ \A i \in 1..Len(s) : SameLetter(s[i], t[i])

NonUrgentCall ==
    /\ IsReassign
    /\ KnownMission(call.project_id)
    /\ ~SameIgnoringCase(MissionOf(call.project_id).priority, Txt_urgent)

C6_NonUrgentAlwaysFails ==
    NonUrgentCall =>
        /\ Returned
        /\ result.value = [status |-> "Failed",
                           reason |-> "Mission is not Urgent."]

C6_Witness ==
    /\ NonUrgentCall /\ Returned
    /\ result.value.status = "Failed"
    /\ CandidateRows # {}

\* What a step that is a call of update_pilot_status does.
C7_UpdateStep ==
    call'.op = "update_pilot_status" =>
        /\ drones' = drones /\ missions' = missions
        /\ Len(pilots') = Len(pilots)
        /\ result'.kind = "return"
        /\ IF KnownPilot(call'.pilot_id)
           THEN /\ result'.value.status = "Success"
                /\ \A i \in 1..Len(pilots) :
                       IF pilots[i].pilot_id = call'.pilot_id
                       THEN pilots'[i] =
                                [pilots[i] EXCEPT !.status = call'.new_status]
                       ELSE pilots'[i] = pilots[i]
                /\ events' = <<[fn |-> "sync_to_google_sheets",
                                df |-> pilots',
                                sheet_name |-> "Pilot_Roster"]>>
           ELSE /\ result'.value = [status |-> "Error",
                                    message |-> "Pilot not found."]
                /\ pilots' = pilots
                /\ events' = <<>>

\* C7: update_pilot_status of a known pilot returns Success, changes that
\* pilot's status field and nothing else in the tables, and then hands the
\* updated roster to the sync; of an unknown pilot it returns the Error
\* 'Pilot not found.', changes nothing and makes no sync call.
C7_UpdateWritesOneStatus == [][C7_UpdateStep]_vars

C7_Witness ==
    /\ IsUpdate /\ Returned
    /\ result.value.status = "Success"
    /\ Len(events) = 1
    /\ PilotOf(call.pilot_id).status = "On Leave"
    /\ \E i \in 1..Len(pilots) : pilots[i].status # "On Leave"

\* C8: with days = (end - start).days + 1 and total_cost = days * daily rate,
\* the budget message is produced exactly when total_cost exceeds the budget;
\* a total equal to the budget produces none.
CallDays ==
    DaysBetween(strptime(MissionOf(call.project_id).start_date),
                strptime(MissionOf(call.project_id).end_date)) + 1

CallCost == CallDays * PilotOf(call.pilot_id).daily_rate_inr

C8_BudgetIsStrict ==
    (CheckResolves /\ Returned) =>
        /\ HasMessage("budget")
               <=> CallCost > MissionOf(call.project_id).mission_budget_inr
        /\ CallCost = MissionOf(call.project_id).mission_budget_inr
               => ~HasMessage("budget")

C8_Witness ==
    /\ CheckResolves /\ Returned
    /\ CallDays = 3
    /\ CallCost = MissionOf(call.project_id).mission_budget_inr
    /\ ~HasMessage("budget")

\* C9: the maintenance message is produced exactly when the maintenance-due
\* date is on or before the mission's start date, whether or not the weather
\* message is produced.
DateNotAfter(a, b) ==
    \/ a.year < b.year
    \/ a.year = b.year /\ a.month < b.month
    \/ a.year = b.year /\ a.month = b.month /\ a.day <= b.day

C9_MaintenanceIsInclusive ==
    (CheckResolves /\ Returned) =>
        (HasMessage("maintenance")
            <=> DateNotAfter(strptime(DroneOf(call.drone_id).maintenance_due),
                             strptime(MissionOf(call.project_id).start_date)))

\* Maintenance due on the start date itself, with the weather message too.
C9_Witness ==
    /\ CheckResolves /\ Returned
    /\ DroneOf(call.drone_id).maintenance_due
           = MissionOf(call.project_id).start_date
    /\ HasMessage("maintenance")
    /\ HasMessage("weather")

\* C10: the skill message is produced exactly when some required skill token
\* is not among the pilot's skill tokens, the tokens of a text being its
\* comma-separated fields without their surrounding whitespace, compared
\* case-sensitively; "Survey,Thermal" covers "Survey" and not "Survey,Mapping".
Commas(text) == {i \in 1..Len(text) : text[i] = ","}

\* The fields a..b of the text: between two commas or ends, holding no comma.
Fields(text) ==
    {f \in (({1} \cup {i + 1 : i \in Commas(text)})
              \X ({Len(text)} \cup {i - 1 : i \in Commas(text)})) :
        /\ f[2] >= f[1] - 1
        /\ \A i \in f[1]..f[2] : text[i] # ","}

\* The field a..b without its surrounding whitespace.
Trimmed(text, a, b) ==
    {SubSeq(text, lo, hi) : <<lo, hi>> \in
        {t \in (a..(b + 1)) \X ((a - 1)..b) :
            /\ t[2] >= t[1] - 1
            /\ \A i \in a..(t[1] - 1) : text[i] \in Whitespace
            /\ \A i \in (t[2] + 1)..b : text[i] \in Whitespace
            /\ t[2] >= t[1] =>
                   (text[t[1]] \notin Whitespace /\ text[t[2]] \notin Whitespace)}}

TokenSet(text) == UNION {Trimmed(text, f[1], f[2]) : f \in Fields(text)}

C10_SkillsAreASubsetTest ==
    (CheckResolves /\ Returned) =>
        LET need == MissionOf(call.project_id).required_skills
            have == PilotOf(call.pilot_id).skills
        IN  /\ HasMessage("skill") <=> ~(TokenSet(need) \subseteq TokenSet(have))
            /\ (have = Txt_SurveyThermal /\ need = Txt_Survey)
                   => ~HasMessage("skill")
            /\ (have = Txt_SurveyThermal /\ need = Txt_SurveyMapping)
                   => HasMessage("skill")

\* Reordered and padded encodings of the same two tokens.
C10_Witness ==
    /\ CheckResolves /\ Returned
    /\ PilotOf(call.pilot_id).skills = Txt_SurveyThermalPad
    /\ MissionOf(call.project_id).required_skills = Txt_ThermalSurvey
    /\ ~HasMessage("skill")

====
